---- MODULE Spec2Model ----
(***************************************************************************)
(* Model of src/app.py: the SongRecognizer class (result cache persisted   *)
(* in song_cache.json, URL validation, the download / extract / recognize  *)
(* pipeline of process_video inside a temporary directory) and the part of *)
(* main() that drives it.  Streamlit runs main() once per interaction and  *)
(* per browser session, each run constructing its own SongRecognizer; the  *)
(* sessions share one cache file.                                          *)
(***************************************************************************)
EXTENDS Integers, Sequences, FiniteSets, TLC

VARIABLES
    file,     \* content of CACHE_FILE on disk, shared by all sessions
    cache,    \* cache[s]: the value of recognizer.cache of session s
    pc,       \* pc[s]: where session s stands in main() / process_video
    url,      \* url[s]: the text of the URL input of the current call
    result,   \* result[s]: what process_video returned to main (or NoResult)
    shown,    \* shown[s]: the st.* message main() ended the call with
    tmp,      \* tmp[s]: the TemporaryDirectory of the running process_video
    spy,      \* spy[s]: per-call counts of the calls made (observation only)
    hint,     \* hint[s]: the st.info suggestion main() shows under an error
    norm      \* one recognize_song_shazam / display_song_result run on a payload

vars == <<file, cache, pc, url, result, shown, tmp, spy, hint, norm>>

-----------------------------------------------------------------------------
(* Constants of the program *)

MAX_CACHE_SIZE == 100

\* Two browser sessions, each a thread running main() against the same file.
Sessions == {"s1", "s2"}

-----------------------------------------------------------------------------
(* Strings the program inspects character by character are sequences of    *)
(* one-character strings.                                                  *)

\* "https://youtube.com/shorts/abc123"
UrlShorts == <<"h", "t", "t", "p", "s", ":", "/", "/", "y", "o", "u", "t", "u", "b", "e", ".", "c", "o", "m", "/", "s", "h", "o", "r", "t", "s", "/", "a", "b", "c", "1", "2", "3">>
\* "https://YouTu.be/x"
UrlMixedCase == <<"h", "t", "t", "p", "s", ":", "/", "/", "Y", "o", "u", "T", "u", ".", "b", "e", "/", "x">>
\* "not a url"
UrlNotAUrl == <<"n", "o", "t", " ", "a", " ", "u", "r", "l">>
\* "" (the text input left empty)
UrlEmpty == <<>>

\* What a user may type into st.text_input.
InputURLs == {UrlShorts, UrlMixedCase, UrlNotAUrl, UrlEmpty}

\* The payloads the recognition service may answer with on a match.
Songs == {"songA", "songB"}

UpperToLower ==
    "A" :> "a" @@ "B" :> "b" @@ "C" :> "c" @@ "D" :> "d" @@ "E" :> "e" @@
    "F" :> "f" @@ "G" :> "g" @@ "H" :> "h" @@ "I" :> "i" @@ "J" :> "j" @@
    "K" :> "k" @@ "L" :> "l" @@ "M" :> "m" @@ "N" :> "n" @@ "O" :> "o" @@
    "P" :> "p" @@ "Q" :> "q" @@ "R" :> "r" @@ "S" :> "s" @@ "T" :> "t" @@
    "U" :> "u" @@ "V" :> "v" @@ "W" :> "w" @@ "X" :> "x" @@ "Y" :> "y" @@
    "Z" :> "z"

\* str.lower()
Lower(str) ==
    [i \in 1..Len(str) |->
        IF str[i] \in DOMAIN UpperToLower THEN UpperToLower[str[i]] ELSE str[i]]

\* pattern in str
Contains(pattern, str) ==
    \E i \in 0..(Len(str) - Len(pattern)) :
        SubSeq(str, i + 1, i + Len(pattern)) = pattern

shorts_patterns == {
    <<"y", "o", "u", "t", "u", "b", "e", ".", "c", "o", "m", "/", "s", "h", "o", "r", "t", "s", "/">>,
    <<"y", "o", "u", "t", "u", ".", "b", "e", "/">>,
    <<"m", ".", "y", "o", "u", "t", "u", "b", "e", ".", "c", "o", "m", "/", "s", "h", "o", "r", "t", "s", "/">>,
    <<"y", "o", "u", "t", "u", "b", "e", ".", "c", "o", "m", "/", "w", "a", "t", "c", "h", "?", "v", "=">> }

\* Faulty variant: every URL is accepted
is_valid_accepts_all(u) == TRUE

is_valid_youtube_shorts_url(u) ==
    \E pattern \in shorts_patterns : Contains(pattern, Lower(u))

\* hashlib.md5(url.encode()).hexdigest(): a digest of the exact characters of
\* the URL (no normalisation); distinct URLs of the model get distinct digests.
get_url_hash(u) == [md5 |-> u]

-----------------------------------------------------------------------------
(* Python values *)

\* A dict is the sequence of its items in insertion order.
EmptyDict == [type |-> "dict", items |-> <<>>]
\* None, as json.load returns it for the document null
PyNone == [type |-> "NoneType", items |-> <<>>]

DictKeys(d) == {d.items[i].key : i \in 1..Len(d.items)}

\* key in d
DictHas(d, k) == k \in DictKeys(d)

\* d[key]
DictGet(d, k) ==
    d.items[CHOOSE i \in 1..Len(d.items) : d.items[i].key = k].value

\* d[key] = value: a present key keeps its position, a new key goes last
DictSet(d, k, v) ==
    IF DictHas(d, k)
    THEN [d EXCEPT !.items =
            [i \in 1..Len(d.items) |->
                IF d.items[i].key = k THEN [key |-> k, value |-> v] ELSE d.items[i]]]
    ELSE [d EXCEPT !.items = Append(d.items, [key |-> k, value |-> v])]

\* result = {'success': False, 'error': None, 'song_data': None} and its updates
NoResult == [success |-> FALSE, error |-> "-", song_data |-> "-"]
Success(song) == [success |-> TRUE, error |-> "None", song_data |-> song]
Failure(message) == [success |-> FALSE, error |-> message, song_data |-> "None"]

-----------------------------------------------------------------------------
(* The cache file *)

Missing == [kind |-> "missing", type |-> "-", members |-> <<>>]
\* content load_cache cannot read: open() raises, or json.load rejects the
\* text (an empty or truncated file, arbitrary bytes)
Garbage == [kind |-> "garbage", type |-> "-", members |-> <<>>]
\* the JSON document null: well-formed JSON that is not an object
JsonNull == [kind |-> "json", type |-> "null", members |-> <<>>]

\* json.dump(d, f): a JSON object whose members are the items, in order
JsonDump(d) ==
    [kind |-> "json", type |-> "object",
     members |-> [i \in 1..Len(d.items) |-> <<d.items[i].key, d.items[i].value>>]]

\* json.load(f) of well-formed JSON
JsonLoad(f) ==
    IF f.type = "object"
    THEN [type |-> "dict",
          items |-> [i \in 1..Len(f.members) |->
                        [key |-> f.members[i][1], value |-> f.members[i][2]]]]
    ELSE PyNone

load_cache(f) ==
    IF f.kind = "missing" THEN EmptyDict         \* os.path.exists is False
    ELSE IF f.kind = "garbage" THEN EmptyDict    \* json.load raises: warning, {}
    ELSE JsonLoad(f)

\* How the write of the file may end: it succeeds, open() raises and the file
\* is left as it was, or the write raises midway and leaves a truncated file.
FlushOutcomes == {"ok", "open_fails", "write_fails"}

\* Faulty variant: items[:MAX_CACHE_SIZE]: the oldest entries are kept
LimitCacheSizeKeepsOldest(d) ==
    IF Len(d.items) > MAX_CACHE_SIZE
    THEN [d EXCEPT !.items = SubSeq(d.items, 1, MAX_CACHE_SIZE)]
    ELSE d

\* items[-MAX_CACHE_SIZE:] when the cache is over the limit
LimitCacheSize(d) ==
    IF Len(d.items) > MAX_CACHE_SIZE
    THEN [d EXCEPT !.items =
            SubSeq(d.items, Len(d.items) - MAX_CACHE_SIZE + 1, Len(d.items))]
    ELSE d

\* Faulty variant: the file is never written
save_cache_without_write(d, f, io) ==
    [cache |-> LimitCacheSize(d), file |-> f]

\* save_cache: the cache and the file it leaves; every exception is swallowed
save_cache(d, f, io) ==
    LET kept == LimitCacheSize(d)
    IN  [cache |-> kept,
         file  |-> CASE io = "ok"          -> JsonDump(kept)
                     [] io = "open_fails"  -> f
                     [] io = "write_fails" -> Garbage]

-----------------------------------------------------------------------------
(* The temporary directory of one process_video call *)

NoDir == [exists |-> FALSE, files |-> {}]
\* tempfile.TemporaryDirectory(): a new, empty directory
NewDir == [exists |-> TRUE, files |-> {}]

\* Faulty variant: the directory is left behind
CleanupSkipped(dir) == dir

\* Leaving the with-block, by return or by an exception, removes the directory
\* and what is in it
Cleanup(dir) == NoDir

-----------------------------------------------------------------------------
(* process_video, stage by stage.  Each operator is the decision the code  *)
(* takes on what the stage returned: the call returns with a result, or    *)
(* goes on to the next stage.                                              *)

GoOn == [return |-> FALSE, result |-> NoResult]
ReturnWith(r) == [return |-> TRUE, result |-> r]

\* Faulty variant: the lookup never finds the key
CacheHitNever(d, u) == FALSE

\* if url_hash in self.cache
CacheHit(d, u) == DictHas(d, get_url_hash(u))

\* Faulty variant: a hit moves the entry to the most recent position
CacheAfterHitRefreshes(d, u) ==
    LET k == get_url_hash(u)
        v == DictGet(d, k)
    IN  [d EXCEPT !.items =
            Append(SelectSeq(d.items, LAMBDA item : item.key # k), [key |-> k, value |-> v])]

\* return self.cache[url_hash]: the cache after a hit; the dict is only read
CacheAfterHit(d, u) == d

\* Faulty variant: the success flag of download_video is not looked at
AfterDownloadIgnoresFailure(success, message, video_files) ==
    IF video_files = {} THEN ReturnWith(Failure("Downloaded video file not found"))
    ELSE GoOn

\* download_video returned (success, message); video_files is the glob
AfterDownload(success, message, video_files) ==
    IF ~success THEN ReturnWith(Failure(message))
    ELSE IF video_files = {} THEN ReturnWith(Failure("Downloaded video file not found"))
    ELSE GoOn

\* Faulty variant: the success flag of extract_audio_segment is not looked at
AfterExtractIgnoresFailure(success, message) == GoOn

\* extract_audio_segment returned (success, message)
AfterExtract(success, message) ==
    IF ~success THEN ReturnWith(Failure(message)) ELSE GoOn

\* Faulty variant: every result is stored and saved, a failure too
AfterRecognizeStoresAll(success, song_data, d, f, u, io) ==
    LET r == IF success THEN Success(song_data) ELSE Failure(song_data)
        saved == save_cache(DictSet(d, get_url_hash(u), r), f, io)
    IN  [result |-> r, cache |-> saved.cache, file |-> saved.file, put |-> 1,
         flush |-> IF io = "ok" THEN "ok" ELSE "failed"]

\* recognize_song_shazam returned (success, song_data): the result, and the
\* cache and the file after it; only a recognized song is stored and saved
AfterRecognize(success, song_data, d, f, u, io) ==
    IF success
    THEN LET r == Success(song_data)
             saved == save_cache(DictSet(d, get_url_hash(u), r), f, io)
         IN  [result |-> r, cache |-> saved.cache, file |-> saved.file, put |-> 1,
              flush |-> IF io = "ok" THEN "ok" ELSE "failed"]
    ELSE [result |-> Failure(song_data), cache |-> d, file |-> f, put |-> 0, flush |-> "-"]

\* What the calls of one process_video call were (observation only); raced:
\* another session wrote the cache file while this call was in the pipeline
NoCalls == [lookup |-> 0, workspace |-> 0, fetch |-> 0, fetch_error |-> "-",
            extract |-> 0, extract_error |-> "-", recognize |-> 0, put |-> 0,
            clear |-> 0, flush |-> "-", raced |-> FALSE]

InPipeline == {"download", "extract", "recognize"}

-----------------------------------------------------------------------------
(* main(): the suggestion shown under an error.  The program looks for     *)
(* words in the lower-cased text of the error, so the text is spelled out. *)

\* The characters of every error text process_video can return
ErrorChars ==
    "Download failed: e" :> <<"D", "o", "w", "n", "l", "o", "a", "d", " ", "f", "a", "i", "l", "e", "d", ":", " ", "e">>
    @@ "Downloaded video file not found" :> <<"D", "o", "w", "n", "l", "o", "a", "d", "e", "d", " ", "v", "i", "d", "e", "o", " ", "f", "i", "l", "e", " ", "n", "o", "t", " ", "f", "o", "u", "n", "d">>
    @@ "FFmpeg error: stderr" :> <<"F", "F", "m", "p", "e", "g", " ", "e", "r", "r", "o", "r", ":", " ", "s", "t", "d", "e", "r", "r">>
    @@ "FFmpeg not found. Please install FFmpeg." :> <<"F", "F", "m", "p", "e", "g", " ", "n", "o", "t", " ", "f", "o", "u", "n", "d", ".", " ", "P", "l", "e", "a", "s", "e", " ", "i", "n", "s", "t", "a", "l", "l", " ", "F", "F", "m", "p", "e", "g", ".">>
    @@ "Audio extraction failed: e" :> <<"A", "u", "d", "i", "o", " ", "e", "x", "t", "r", "a", "c", "t", "i", "o", "n", " ", "f", "a", "i", "l", "e", "d", ":", " ", "e">>
    @@ "No song recognized by Shazam" :> <<"N", "o", " ", "s", "o", "n", "g", " ", "r", "e", "c", "o", "g", "n", "i", "z", "e", "d", " ", "b", "y", " ", "S", "h", "a", "z", "a", "m">>
    @@ "Shazam recognition failed: e" :> <<"S", "h", "a", "z", "a", "m", " ", "r", "e", "c", "o", "g", "n", "i", "t", "i", "o", "n", " ", "f", "a", "i", "l", "e", "d", ":", " ", "e">>
    @@ "Unknown error" :> <<"U", "n", "k", "n", "o", "w", "n", " ", "e", "r", "r", "o", "r">>

\* The if / elif chain on result['error'].lower(): the first branch whose
\* word occurs in the text decides, the later branches are not looked at
ErrorHint(error) ==
    LET low == Lower(ErrorChars[error])
    IN  IF Contains(<<"n", "o", "t", " ", "f", "o", "u", "n", "d">>, low) \/ Contains(<<"i", "n", "v", "a", "l", "i", "d">>, low)
        THEN "check_url"
        ELSE IF Contains(<<"s", "h", "a", "z", "a", "m">>, low) THEN "shazam_database"
        ELSE IF Contains(<<"f", "f", "m", "p", "e", "g">>, low) THEN "install_ffmpeg"
        ELSE IF Contains(<<"n", "o", " ", "s", "o", "n", "g", " ", "r", "e", "c", "o", "g", "n", "i", "z", "e", "d">>, low) THEN "clearer_audio"
        ELSE "none"

\* No payload is being normalised
NoNorm == [stage |-> "idle"]

-----------------------------------------------------------------------------
Init ==
    /\ file \in {Missing, Garbage, JsonNull, JsonDump(EmptyDict)}
    /\ cache = [s \in Sessions |-> EmptyDict]
    /\ pc = [s \in Sessions |-> "off"]
    /\ url = [s \in Sessions |-> <<>>]
    /\ result = [s \in Sessions |-> NoResult]
    /\ shown = [s \in Sessions |-> "-"]
    /\ tmp = [s \in Sessions |-> NoDir]
    /\ spy = [s \in Sessions |-> NoCalls]
    /\ hint = [s \in Sessions |-> "none"]
    /\ norm = NoNorm

\* main(): recognizer = SongRecognizer(), at the start of every run of the
\* script ("off": the first run; "rerun": a later run, cache[s] still showing
\* the cache of the recognizer of the run before)
Construct(s) ==
    /\ pc[s] \in {"off", "rerun"}
    /\ cache' = [cache EXCEPT ![s] = load_cache(file)]
    /\ pc' = [pc EXCEPT ![s] = "sidebar"]
    /\ spy' = [spy EXCEPT ![s] = NoCalls]
    /\ UNCHANGED <<file, url, result, shown, tmp, hint, norm>>

\* main(): cache_size = len(recognizer.cache); len(None) raises TypeError
Sidebar(s) ==
    /\ pc[s] = "sidebar"
    /\ pc' = [pc EXCEPT ![s] = IF cache[s].type = "dict" THEN "ui" ELSE "raised"]
    /\ UNCHANGED <<file, cache, url, result, shown, tmp, spy, hint, norm>>

\* main(): the Clear Cache button; st.rerun() then starts the script again
ClearCache(s) ==
    /\ pc[s] = "ui"
    /\ \E io \in FlushOutcomes :
        LET saved == save_cache(EmptyDict, file, io)
        IN  /\ cache' = [cache EXCEPT ![s] = saved.cache]
            /\ file' = saved.file
            /\ spy' = [spy EXCEPT ![s] = [NoCalls EXCEPT !.clear = 1,
                                    !.flush = IF io = "ok" THEN "ok" ELSE "failed"]]
    /\ pc' = [pc EXCEPT ![s] = "rerun"]
    /\ url' = [url EXCEPT ![s] = <<>>]
    /\ result' = [result EXCEPT ![s] = NoResult]
    /\ shown' = [shown EXCEPT ![s] = "cleared"]
    /\ hint' = [hint EXCEPT ![s] = "none"]
    /\ UNCHANGED <<tmp, norm>>

\* main(): the user types a URL and presses Find Song.  The recognizer is the
\* one of this run of the script; a caller that keeps its recognizer calls it
\* again from "ui", Streamlit goes through Rerun and Construct first.
FindSong(s) ==
    /\ pc[s] = "ui"
    /\ \E u \in InputURLs : url' = [url EXCEPT ![s] = u]
    /\ pc' = [pc EXCEPT ![s] = "submitted"]
    /\ result' = [result EXCEPT ![s] = NoResult]
    /\ shown' = [shown EXCEPT ![s] = "-"]
    /\ hint' = [hint EXCEPT ![s] = "none"]
    /\ spy' = [spy EXCEPT ![s] = NoCalls]
    /\ UNCHANGED <<file, cache, tmp, norm>>

\* process_video returns r to main, which shows the song or the error
Return(s, r) ==
    /\ result' = [result EXCEPT ![s] = r]
    /\ shown' = [shown EXCEPT ![s] = IF r.success THEN "song" ELSE "error"]
    /\ hint' = [hint EXCEPT ![s] = IF r.success THEN "none" ELSE ErrorHint(r.error)]
    /\ pc' = [pc EXCEPT ![s] = "ui"]

\* main(): the two checks of the input; then process_video, from the cache
\* lookup to the creation of the temporary directory
Identify(s) ==
    /\ pc[s] = "submitted"
    /\ IF url[s] = <<>>
       THEN /\ shown' = [shown EXCEPT ![s] = "enter_url"]
            /\ pc' = [pc EXCEPT ![s] = "ui"]
            /\ UNCHANGED <<cache, result, tmp, spy, hint>>
       ELSE IF ~is_valid_youtube_shorts_url(url[s])
       THEN /\ shown' = [shown EXCEPT ![s] = "invalid_url"]
            /\ pc' = [pc EXCEPT ![s] = "ui"]
            /\ UNCHANGED <<cache, result, tmp, spy, hint>>
       ELSE IF CacheHit(cache[s], url[s])
       THEN /\ Return(s, DictGet(cache[s], get_url_hash(url[s])))
            /\ cache' = [cache EXCEPT ![s] = CacheAfterHit(@, url[s])]
            /\ spy' = [spy EXCEPT ![s].lookup = 1]
            /\ UNCHANGED tmp
       ELSE /\ tmp' = [tmp EXCEPT ![s] = NewDir]
            /\ spy' = [spy EXCEPT ![s].lookup = 1, ![s].workspace = 1]
            /\ pc' = [pc EXCEPT ![s] = "download"]
            /\ UNCHANGED <<cache, result, shown, hint>>
    /\ UNCHANGED <<file, url, norm>>

\* What download_video may do: (success, message) and the files it leaves
DownloadOutcomes == {
    [success |-> TRUE, message |-> "Video downloaded successfully", files |-> {"video.mp4"}],
    [success |-> TRUE, message |-> "Video downloaded successfully", files |-> {}],
    [success |-> FALSE, message |-> "Download failed: e", files |-> {}],
    [success |-> FALSE, message |-> "Download failed: e", files |-> {"video.mp4.part"}] }

\* process_video, step 1: download_video, then the glob for the video file
Download(s) ==
    /\ pc[s] = "download"
    /\ \E dl \in DownloadOutcomes :
        LET after == AfterDownload(dl.success, dl.message, dl.files)
        IN  /\ spy' = [spy EXCEPT ![s].fetch = @ + 1,
                                  ![s].fetch_error = IF dl.success THEN "-" ELSE dl.message]
            /\ IF after.return
               THEN /\ Return(s, after.result)
                    /\ tmp' = [tmp EXCEPT ![s] = Cleanup(@)]
               ELSE /\ tmp' = [tmp EXCEPT ![s].files = dl.files]
                    /\ pc' = [pc EXCEPT ![s] = "extract"]
                    /\ UNCHANGED <<result, shown, hint>>
    /\ UNCHANGED <<file, cache, url, norm>>

\* What extract_audio_segment may return
ExtractOutcomes == {
    [success |-> TRUE, message |-> "Audio extracted successfully"],
    [success |-> FALSE, message |-> "FFmpeg error: stderr"],
    [success |-> FALSE, message |-> "FFmpeg not found. Please install FFmpeg."],
    [success |-> FALSE, message |-> "Audio extraction failed: e"] }

\* process_video, step 2: extract_audio_segment
Extract(s) ==
    /\ pc[s] = "extract"
    /\ \E ex \in ExtractOutcomes :
        LET after == AfterExtract(ex.success, ex.message)
        IN  /\ spy' = [spy EXCEPT ![s].extract = @ + 1,
                                  ![s].extract_error = IF ex.success THEN "-" ELSE ex.message]
            /\ IF after.return
               THEN /\ Return(s, after.result)
                    /\ tmp' = [tmp EXCEPT ![s] = Cleanup(@)]
               ELSE /\ tmp' = [tmp EXCEPT ![s].files = @ \cup {"audio.mp3"}]
                    /\ pc' = [pc EXCEPT ![s] = "recognize"]
                    /\ UNCHANGED <<result, shown, hint>>
    /\ UNCHANGED <<file, cache, url, norm>>

\* What recognize_song_shazam may return: (True, song_data) or (False, error)
RecognizeOutcomes ==
    {[success |-> TRUE, song_data |-> song] : song \in Songs}
    \cup {[success |-> FALSE, song_data |-> "No song recognized by Shazam"],
          [success |-> FALSE, song_data |-> "Shazam recognition failed: e"]}

\* process_video, step 3: recognize_song_shazam, the cache update, the return
Recognize(s) ==
    /\ pc[s] = "recognize"
    /\ \E rec \in RecognizeOutcomes, io \in FlushOutcomes :
        LET after == AfterRecognize(rec.success, rec.song_data, cache[s], file, url[s], io)
        IN  /\ rec.success \/ io = "ok"    \* without a match nothing is written
            /\ cache' = [cache EXCEPT ![s] = after.cache]
            /\ file' = after.file
            /\ spy' = [t \in Sessions |->
                        IF t = s
                        THEN [spy[s] EXCEPT !.recognize = @ + 1, !.put = @ + after.put,
                                            !.flush = after.flush]
                        ELSE IF after.flush = "ok" /\ pc[t] \in InPipeline
                        THEN [spy[t] EXCEPT !.raced = TRUE]
                        ELSE spy[t]]
            /\ Return(s, after.result)
    /\ tmp' = [tmp EXCEPT ![s] = Cleanup(@)]
    /\ UNCHANGED <<url, norm>>

\* The call is cancelled while a stage is running: the exception leaves the
\* with-block, which removes the temporary directory, and ends the script run
Cancel(s) ==
    /\ pc[s] \in InPipeline
    /\ tmp' = [tmp EXCEPT ![s] = Cleanup(@)]
    /\ pc' = [pc EXCEPT ![s] = "raised"]
    /\ UNCHANGED <<file, cache, url, result, shown, spy, hint, norm>>

\* The script run is over; the next interaction will run main() again
Rerun(s) ==
    /\ pc[s] \in {"ui", "raised"}
    /\ pc' = [pc EXCEPT ![s] = "rerun"]
    /\ url' = [url EXCEPT ![s] = <<>>]
    /\ result' = [result EXCEPT ![s] = NoResult]
    /\ shown' = [shown EXCEPT ![s] = "-"]
    /\ hint' = [hint EXCEPT ![s] = "none"]
    /\ spy' = [spy EXCEPT ![s] = [NoCalls EXCEPT !.flush = spy[s].flush]]
    /\ UNCHANGED <<file, cache, tmp, norm>>

Step(s) ==
    \/ Construct(s)
    \/ Sidebar(s)
    \/ ClearCache(s)
    \/ FindSong(s)
    \/ Identify(s)
    \/ Download(s)
    \/ Extract(s)
    \/ Recognize(s)
    \/ Cancel(s)
    \/ Rerun(s)

Next == \E s \in Sessions : Step(s)

Spec == Init /\ [][Next]_vars

-----------------------------------------------------------------------------
(* One session that starts with a cache file holding MAX_CACHE_SIZE entries, *)
(* written by earlier runs for the URLs https://youtu.be/1, /2, ...          *)

DigitChars == <<"0", "1", "2", "3", "4", "5", "6", "7", "8", "9">>

RECURSIVE Digits(_)
Digits(n) ==
    IF n < 10 THEN <<DigitChars[n + 1]>>
    ELSE Digits(n \div 10) \o <<DigitChars[(n % 10) + 1]>>

OldUrl(i) ==
    <<"h", "t", "t", "p", "s", ":", "/", "/", "y", "o", "u", "t", "u", ".", "b", "e", "/">>
    \o Digits(i)

FullCache ==
    [type |-> "dict",
     items |-> [i \in 1..MAX_CACHE_SIZE |->
                  [key |-> get_url_hash(OldUrl(i)), value |-> Success("songA")]]]

InitFull ==
    /\ file = JsonDump(FullCache)
    /\ cache = [s \in Sessions |-> EmptyDict]
    /\ pc = [s \in Sessions |-> "off"]
    /\ url = [s \in Sessions |-> <<>>]
    /\ result = [s \in Sessions |-> NoResult]
    /\ shown = [s \in Sessions |-> "-"]
    /\ tmp = [s \in Sessions |-> NoDir]
    /\ spy = [s \in Sessions |-> NoCalls]
    /\ hint = [s \in Sessions |-> "none"]
    /\ norm = NoNorm

NextOne == \E s \in {"s1"} : Step(s)

SpecFull == InitFull /\ [][NextOne]_vars

\* The same, the oldest entry of the file being the one of UrlShorts: a URL
\* the user of the model can ask for again
HitCache ==
    [FullCache EXCEPT !.items[1] = [key |-> get_url_hash(UrlShorts), value |-> Success("songA")]]

InitHit ==
    /\ file = JsonDump(HitCache)
    /\ cache = [s \in Sessions |-> EmptyDict]
    /\ pc = [s \in Sessions |-> "off"]
    /\ url = [s \in Sessions |-> <<>>]
    /\ result = [s \in Sessions |-> NoResult]
    /\ shown = [s \in Sessions |-> "-"]
    /\ tmp = [s \in Sessions |-> NoDir]
    /\ spy = [s \in Sessions |-> NoCalls]
    /\ hint = [s \in Sessions |-> "none"]
    /\ norm = NoNorm

SpecHit == InitHit /\ [][NextOne]_vars

-----------------------------------------------------------------------------
(* recognize_song_shazam and display_song_result.  The answer of the       *)
(* recognition service is a dict of dicts and lists: a dict is a function  *)
(* from its keys, a list a sequence, and the strings the code takes apart  *)
(* (metadata titles, link URIs) are sequences of characters.               *)

\* {}
NoKeys == [k \in {} |-> k]
\* d.get(key, default)
Get(d, k, default) == IF k \in DOMAIN d THEN d[k] ELSE default
\* d[key] = value
Put(d, k, v) == (k :> v) @@ d
\* d.get(key) == value, for a value that is not None
GetIs(d, k, v) == k \in DOMAIN d /\ d[k] = v

Album == <<"A", "l", "b", "u", "m">>
Released == <<"R", "e", "l", "e", "a", "s", "e", "d">>
Label == <<"L", "a", "b", "e", "l">>

\* song_data = {'title': track.get('title', 'Unknown Title'), ...}
SongData(track) ==
    [title     |-> Get(track, "title", "Unknown Title"),
     subtitle  |-> Get(track, "subtitle", "Unknown Artist"),
     artist    |-> Get(track, "subtitle", "Unknown Artist"),
     sections  |-> Get(track, "sections", <<>>),
     images    |-> Get(track, "images", NoKeys),
     share     |-> Get(track, "share", NoKeys),
     hub       |-> Get(track, "hub", NoKeys),
     key       |-> Get(track, "key", ""),
     genres    |-> Get(track, "genres", NoKeys),
     urlparams |-> Get(track, "urlparams", NoKeys)]

\* Faulty variant: the title of the pair is compared without regard to case
MetaIntoAnyCase(song_data, meta) ==
    IF "title" \notin DOMAIN meta THEN song_data
    ELSE IF Lower(meta.title) = Lower(Album)
    THEN Put(song_data, "album", [name |-> Get(meta, "text", "")])
    ELSE IF Lower(meta.title) = Lower(Released)
    THEN Put(song_data, "release_date", Get(meta, "text", ""))
    ELSE IF Lower(meta.title) = Lower(Label)
    THEN Put(song_data, "label", Get(meta, "text", ""))
    ELSE song_data

\* if meta.get('title') == 'Album': ... elif ... 'Released': ... elif ... 'Label'
MetaInto(song_data, meta) ==
    IF GetIs(meta, "title", Album)
    THEN Put(song_data, "album", [name |-> Get(meta, "text", "")])
    ELSE IF GetIs(meta, "title", Released)
    THEN Put(song_data, "release_date", Get(meta, "text", ""))
    ELSE IF GetIs(meta, "title", Label)
    THEN Put(song_data, "label", Get(meta, "text", ""))
    ELSE song_data

\* for meta in metadata
RECURSIVE MetadataInto(_, _)
MetadataInto(song_data, metadata) ==
    IF metadata = <<>> THEN song_data
    ELSE MetadataInto(MetaInto(song_data, Head(metadata)), Tail(metadata))

\* for section in track.get('sections', []): if section.get('type') == 'SONG'
RECURSIVE SectionsInto(_, _)
SectionsInto(song_data, sections) ==
    IF sections = <<>> THEN song_data
    ELSE SectionsInto(
            IF GetIs(Head(sections), "type", "SONG")
            THEN MetadataInto(song_data, Get(Head(sections), "metadata", <<>>))
            ELSE song_data,
            Tail(sections))

\* if action.get('type') == 'uri': the link goes to Spotify or to Apple Music
ActionInto(song_data, action) ==
    IF GetIs(action, "type", "uri")
    THEN LET uri == Get(action, "uri", <<>>)
         IN  IF Contains(<<"s", "p", "o", "t", "i", "f", "y">>, Lower(uri))
             THEN Put(song_data, "spotify_uri", uri)
             ELSE IF Contains(<<"a", "p", "p", "l", "e">>, Lower(uri))
             THEN Put(song_data, "apple_music_uri", uri)
             ELSE song_data
    ELSE song_data

\* for action in track['hub']['actions']
RECURSIVE ActionsInto(_, _)
ActionsInto(song_data, actions) ==
    IF actions = <<>> THEN song_data
    ELSE ActionsInto(ActionInto(song_data, Head(actions)), Tail(actions))

\* if 'actions' in track.get('hub', {})
HubInto(song_data, track) ==
    IF "actions" \in DOMAIN Get(track, "hub", NoKeys)
    THEN ActionsInto(song_data, track.hub.actions)
    ELSE song_data

\* if 'href' in share_data: song_data['shazam_url'] = share_data['href']
ShareInto(song_data, track) ==
    LET share_data == Get(track, "share", NoKeys)
    IN  IF "href" \in DOMAIN share_data
        THEN Put(song_data, "shazam_url", share_data.href)
        ELSE song_data

\* Faulty variant: an exception and an answer without a match give one text
recognize_one_failure_text(p) ==
    IF p.kind = "result" /\ p.result # NoKeys /\ "track" \in DOMAIN p.result
    THEN [success |-> TRUE,
          song_data |-> ShareInto(HubInto(SectionsInto(SongData(p.result.track),
                            Get(p.result.track, "sections", <<>>)),
                            p.result.track), p.result.track)]
    ELSE [success |-> FALSE, song_data |-> [error |-> "No song recognized by Shazam"]]

\* Faulty variant: track['hub'] is read without asking whether it is there
recognize_needs_hub(p) ==
    IF p.kind = "raises" \/ (p.kind = "result" /\ p.result # NoKeys
                             /\ "track" \in DOMAIN p.result
                             /\ "hub" \notin DOMAIN p.result.track)
    THEN [success |-> FALSE, song_data |-> [error |-> "Shazam recognition failed: e"]]
    ELSE IF p.result # NoKeys /\ "track" \in DOMAIN p.result
    THEN [success |-> TRUE,
          song_data |-> ShareInto(HubInto(SectionsInto(SongData(p.result.track),
                            Get(p.result.track, "sections", <<>>)),
                            p.result.track), p.result.track)]
    ELSE [success |-> FALSE, song_data |-> [error |-> "No song recognized by Shazam"]]

\* recognize_song_shazam: p is what shazam.recognize_song did, raise or answer
recognize_song_shazam(p) ==
    IF p.kind = "raises"
    THEN [success |-> FALSE, song_data |-> [error |-> "Shazam recognition failed: e"]]
    ELSE IF p.result # NoKeys /\ "track" \in DOMAIN p.result
    THEN [success |-> TRUE,
          song_data |-> ShareInto(HubInto(SectionsInto(SongData(p.result.track),
                            Get(p.result.track, "sections", <<>>)),
                            p.result.track), p.result.track)]
    ELSE [success |-> FALSE, song_data |-> [error |-> "No song recognized by Shazam"]]

\* str.startswith(prefix)
StartsWith(prefix, str) ==
    Len(str) >= Len(prefix) /\ SubSeq(str, 1, Len(prefix)) = prefix

\* str.split(':')[-1]: what follows the last ':', all of str when it has none
RECURSIVE LastField(_)
LastField(str) ==
    IF str = <<>> \/ str[Len(str)] = ":" THEN <<>>
    ELSE LastField(SubSeq(str, 1, Len(str) - 1)) \o <<str[Len(str)]>>

\* "https://open.spotify.com/track/"
OpenSpotifyTrack == <<"h", "t", "t", "p", "s", ":", "/", "/", "o", "p", "e", "n", ".", "s", "p", "o", "t", "i", "f", "y", ".", "c", "o", "m", "/", "t", "r", "a", "c", "k", "/">>

\* if spotify_uri.startswith('spotify:'): ... else: spotify_url = spotify_uri
SpotifyUrl(spotify_uri) ==
    IF StartsWith(<<"s", "p", "o", "t", "i", "f", "y", ":">>, spotify_uri)
    THEN OpenSpotifyTrack \o LastField(spotify_uri)
    ELSE spotify_uri

\* One line of the "Additional Information" expander
RECURSIVE MetaLines(_)
MetaLines(metadata) ==
    IF metadata = <<>> THEN <<>>
    ELSE (IF Get(Head(metadata), "title", <<>>) # <<>> /\ Get(Head(metadata), "text", "") # ""
          THEN <<[line |-> "meta", title |-> Head(metadata).title, text |-> Head(metadata).text]>>
          ELSE <<>>)
         \o MetaLines(Tail(metadata))

RECURSIVE SectionLines(_)
SectionLines(sections) ==
    IF sections = <<>> THEN <<>>
    ELSE (IF GetIs(Head(sections), "type", "LYRICS")
          THEN <<[line |-> "lyrics", title |-> <<>>, text |-> ""]>>
          ELSE IF GetIs(Head(sections), "type", "VIDEO")
          THEN <<[line |-> "video", title |-> <<>>, text |-> ""]>>
          ELSE MetaLines(Get(Head(sections), "metadata", <<>>)))
         \o SectionLines(Tail(sections))

\* display_song_result: what is put on the page; a key is there when the
\* element is shown
display_song_result(song_data) ==
    LET images == Get(song_data, "images", NoKeys)
        cover == IF Get(images, "coverart", "") # ""
                 THEN [cover_url |-> images.coverart]
                 ELSE IF Get(images, "background", "") # ""
                 THEN [cover_url |-> images.background]
                 ELSE NoKeys
        head == [title  |-> Get(song_data, "title", "Unknown Title"),
                 artist |-> Get(song_data, "artist", "Unknown Artist")]
        album == IF Get(Get(song_data, "album", NoKeys), "name", "") # ""
                 THEN [album |-> song_data.album.name] ELSE NoKeys
        released == IF Get(song_data, "release_date", "") # ""
                    THEN [release_date |-> song_data.release_date] ELSE NoKeys
        label == IF Get(song_data, "label", "") # ""
                 THEN [label |-> song_data.label] ELSE NoKeys
        spotify == IF Get(song_data, "spotify_uri", <<>>) # <<>>
                   THEN [spotify_url |-> SpotifyUrl(song_data.spotify_uri)] ELSE NoKeys
        apple == IF Get(song_data, "apple_music_uri", <<>>) # <<>>
                 THEN [apple_music_url |-> song_data.apple_music_uri] ELSE NoKeys
        shazam == IF Get(song_data, "shazam_url", "") # ""
                  THEN [shazam_url |-> song_data.shazam_url] ELSE NoKeys
        genre == IF Get(Get(song_data, "genres", NoKeys), "primary", "") # ""
                 THEN [genre |-> song_data.genres.primary] ELSE NoKeys
        more == IF Get(song_data, "sections", <<>>) # <<>>
                THEN [additional |-> SectionLines(song_data.sections)] ELSE NoKeys
    IN  cover @@ head @@ album @@ released @@ label @@ spotify @@ apple @@ shazam
        @@ genre @@ more

-----------------------------------------------------------------------------
(* One session at the recognition step of a call, and the answers the      *)
(* recognition service may give: the call returns, main() shows the song.  *)

\* The longest metadata list of a section and the longest list of hub actions
MaxMeta == 2
MaxActions == 2

\* Sequences over S of length 0..n
SeqsUpTo(S, n) == UNION {[1..k -> S] : k \in 0..n}

\* Titles of metadata pairs, as Shazam spells them and in other spellings
MetaTitles == {Album, Released, Label,
               <<"A", "L", "B", "U", "M">>,
               <<"a", "l", "b", "u", "m">>,
               <<"r", "e", "l", "e", "a", "s", "e", "d">>}

\* Metadata pairs: with both keys, without 'text', without 'title'
MetaPairs ==
    {[title |-> t, text |-> "Thriller"] : t \in MetaTitles}
    \cup {[title |-> Album, text |-> "Bad"], [title |-> Album], [text |-> "Epic"]}

\* Sections: with or without 'type', with or without 'metadata'
SectionValues ==
    {[type |-> ty, metadata |-> md] :
        ty \in {"SONG", "LYRICS"}, md \in SeqsUpTo(MetaPairs, MaxMeta)}
    \cup {[metadata |-> md] : md \in SeqsUpTo(MetaPairs, 1)}
    \cup {[type |-> "SONG"], [type |-> "VIDEO"], NoKeys}

\* A SONG section as it comes after another one
LaterSection == [type |-> "SONG", metadata |-> <<[title |-> Album, text |-> "Off the Wall"]>>]

SectionLists ==
    {<<>>} \cup {<<sec>> : sec \in SectionValues}
    \cup {<<sec, LaterSection>> : sec \in SectionValues}

\* Link URIs of hub actions
SpotifyTrackUri == <<"s", "p", "o", "t", "i", "f", "y", ":", "t", "r", "a", "c", "k", ":", "4", "c", "O", "d", "K", "2", "w", "G", "L", "E", "T", "K", "B", "W", "3", "P", "v", "g", "P", "W", "q", "T">>
SpotifySearchUri == <<"s", "p", "o", "t", "i", "f", "y", ":", "s", "e", "a", "r", "c", "h", ":", "B", "i", "l", "l", "i", "e", "%", "2", "0", "J", "e", "a", "n">>
SpotifyAlbumUri == <<"s", "p", "o", "t", "i", "f", "y", ":", "a", "l", "b", "u", "m", ":", "2", "A", "N", "V", "o", "s", "t", "0", "y", "2", "y", "5", "2", "e", "m", "a", "1", "E", "9", "x", "A", "Z">>
SpotifyHttpsUrl == <<"h", "t", "t", "p", "s", ":", "/", "/", "o", "p", "e", "n", ".", "s", "p", "o", "t", "i", "f", "y", ".", "c", "o", "m", "/", "t", "r", "a", "c", "k", "/", "4", "c", "O", "d", "K", "2", "w", "G", "L", "E", "T", "K", "B", "W", "3", "P", "v", "g", "P", "W", "q", "T">>
AppleMusicUrl == <<"h", "t", "t", "p", "s", ":", "/", "/", "m", "u", "s", "i", "c", ".", "a", "p", "p", "l", "e", ".", "c", "o", "m", "/", "u", "s", "/", "s", "o", "n", "g", "/", "1">>
DeezerUrl == <<"h", "t", "t", "p", "s", ":", "/", "/", "w", "w", "w", ".", "d", "e", "e", "z", "e", "r", ".", "c", "o", "m", "/", "t", "r", "a", "c", "k", "/", "3">>

LinkUris == {SpotifyTrackUri, SpotifySearchUri, SpotifyAlbumUri, SpotifyHttpsUrl,
             AppleMusicUrl, DeezerUrl}

\* Hub actions: with or without 'type', with or without 'uri'
HubActions ==
    {[type |-> "uri", uri |-> u] : u \in LinkUris}
    \cup {[type |-> "applemusicplay", uri |-> AppleMusicUrl],
          [type |-> "uri"], [uri |-> SpotifyTrackUri]}

HubValues ==
    {[actions |-> as] : as \in SeqsUpTo(HubActions, MaxActions)}
    \cup {[type |-> "SHAZAM"], NoKeys}

ImagesValues == {[coverart |-> "cover.jpg", background |-> "back.jpg"],
                 [coverart |-> "cover.jpg"], [background |-> "back.jpg"], NoKeys}
ShareValues == {[href |-> "https://www.shazam.com/track/1", subject |-> "s"],
                [subject |-> "s"], NoKeys}
GenresValues == {[primary |-> "Pop"], NoKeys}

\* A match record with every key the code reads
FullTrack ==
    [title     |-> "Billie Jean",
     subtitle  |-> "Michael Jackson",
     sections  |-> <<[type |-> "SONG",
                      metadata |-> <<[title |-> Album, text |-> "Thriller"],
                                     [title |-> Label, text |-> "Epic"],
                                     [title |-> Released, text |-> "1982"]>>]>>,
     images    |-> [coverart |-> "cover.jpg", background |-> "back.jpg"],
     share     |-> [href |-> "https://www.shazam.com/track/1", subject |-> "s"],
     hub       |-> [actions |-> <<[type |-> "uri", uri |-> SpotifyTrackUri],
                                  [type |-> "uri", uri |-> AppleMusicUrl]>>],
     key       |-> "1",
     genres    |-> [primary |-> "Pop"],
     urlparams |-> NoKeys]

\* The match records: every subset of the keys of the full one, and the full
\* one with each nested value in turn
Tracks ==
    {[k \in K |-> FullTrack[k]] : K \in SUBSET (DOMAIN FullTrack)}
    \cup {Put(FullTrack, "sections", v) : v \in SectionLists}
    \cup {Put(FullTrack, "hub", v) : v \in HubValues}
    \cup {Put(FullTrack, "images", v) : v \in ImagesValues}
    \cup {Put(FullTrack, "share", v) : v \in ShareValues}
    \cup {Put(FullTrack, "genres", v) : v \in GenresValues}

\* What shazam.recognize_song does: it raises, or it answers with a dict that
\* holds a match record under 'track' or holds none
Payloads ==
    {[kind |-> "raises", result |-> NoKeys]}
    \cup {[kind |-> "result", result |-> r] : r \in {NoKeys, [matches |-> <<>>]}}
    \cup {[kind |-> "result", result |-> [matches |-> <<>>, track |-> t]] : t \in Tracks}

\* The text of the error of a failed recognition, as process_video reads it
ErrorOf(song_data) == Get(song_data, "error", "Unknown error")

InitPayload ==
    /\ file = JsonDump(EmptyDict)
    /\ cache = [s \in Sessions |-> EmptyDict]
    /\ pc = [s \in Sessions |-> IF s = "s1" THEN "recognize" ELSE "off"]
    /\ url = [s \in Sessions |-> IF s = "s1" THEN UrlShorts ELSE <<>>]
    /\ result = [s \in Sessions |-> NoResult]
    /\ shown = [s \in Sessions |-> "-"]
    /\ tmp = [s \in Sessions |->
                IF s = "s1" THEN [exists |-> TRUE, files |-> {"video.mp4", "audio.mp3"}]
                ELSE NoDir]
    /\ spy = [s \in Sessions |->
                IF s = "s1"
                THEN [NoCalls EXCEPT !.lookup = 1, !.workspace = 1, !.fetch = 1, !.extract = 1]
                ELSE NoCalls]
    /\ hint = [s \in Sessions |-> "none"]
    /\ \E p \in Payloads : norm = [stage |-> "payload", payload |-> p]

\* process_video, step 3, on the answer norm.payload
RecognizePayload(s) ==
    /\ pc[s] = "recognize"
    /\ norm.stage = "payload"
    /\ \E io \in FlushOutcomes :
        LET rec == recognize_song_shazam(norm.payload)
            after == AfterRecognize(rec.success,
                        IF rec.success THEN rec.song_data ELSE ErrorOf(rec.song_data),
                        cache[s], file, url[s], io)
        IN  /\ rec.success \/ io = "ok"    \* without a match nothing is written
            /\ cache' = [cache EXCEPT ![s] = after.cache]
            /\ file' = after.file
            /\ spy' = [spy EXCEPT ![s].recognize = @ + 1, ![s].put = @ + after.put,
                                  ![s].flush = after.flush]
            /\ Return(s, after.result)
    /\ norm' = [norm EXCEPT !.stage = "returned"]
    /\ tmp' = [tmp EXCEPT ![s] = Cleanup(@)]
    /\ UNCHANGED url

\* main(): if result['success']: display_song_result(result['song_data'])
DisplaySong(s) ==
    /\ pc[s] = "ui"
    /\ norm.stage = "returned"
    /\ result[s].success
    /\ norm' = [stage |-> "displayed", payload |-> norm.payload,
                display |-> display_song_result(result[s].song_data)]
    /\ UNCHANGED <<file, cache, pc, url, result, shown, tmp, spy, hint>>

NextPayload == \E s \in {"s1"} : RecognizePayload(s) \/ DisplaySong(s)

SpecPayload == InitPayload /\ [][NextPayload]_vars

-----------------------------------------------------------------------------
(* Properties *)

Key(s) == get_url_hash(url[s])

\* no pattern occurs in the lower-cased URL
MatchesNoPattern(u) ==
    \A pattern \in shorts_patterns : ~Contains(pattern, Lower(u))

\* session s takes the step that leaves the state "submitted" (Identify)
Identifies(s) == pc[s] = "submitted" /\ pc'[s] # "submitted"

\* session s takes a step in which process_video returns to main
Returns(s) == pc[s] \in InPipeline \cup {"submitted"} /\ pc'[s] = "ui" /\ spy'[s].lookup = 1

\* the recognizer of session s is the same object before and after the step
SameRecognizer(s) == pc[s] \notin {"off", "rerun"}

NoStageCalled(c) == c.fetch = 0 /\ c.extract = 0 /\ c.recognize = 0

C3_FailureNotCached ==
    [][\A s \in Sessions :
        /\ (pc[s] \in InPipeline \cup {"submitted"} /\ pc'[s] # pc[s]
                /\ ~result'[s].success)
            => cache'[s] = cache[s] /\ file' = file
        /\ (Returns(s) /\ ~result'[s].success)
            => /\ ~DictHas(cache'[s], Key(s))
               /\ Len(cache'[s].items) = Len(cache[s].items)
               /\ spy'[s].put = 0 /\ spy'[s].flush = "-"
    ]_vars

\* C3 witness: a call has returned the Failure of the recognition stage and the
\* key of its URL is not in the cache
C3_Witness ==
    \E s \in Sessions :
        /\ pc[s] = "ui" /\ spy[s].recognize = 1 /\ ~result[s].success
        /\ ~DictHas(cache[s], Key(s))

\* C4: a URL that contains none of the patterns (or is empty) is rejected by
\* main before process_video is entered: no result, no cache lookup, no
\* temporary directory, no stage, cache and file untouched; any other URL goes
\* on to the cache lookup; "https://youtube.com/shorts/abc123" is accepted.
C4_ValidationFirst ==
    [][\A s \in Sessions :
        Identifies(s) =>
            IF MatchesNoPattern(url[s])
            THEN /\ shown'[s] \in {"invalid_url", "enter_url"}
                 /\ pc'[s] = "ui"
                 /\ result'[s] = NoResult
                 /\ spy'[s] = NoCalls
                 /\ tmp'[s] = NoDir
                 /\ cache' = cache /\ file' = file
            ELSE /\ spy'[s].lookup = 1
                 /\ shown'[s] \notin {"invalid_url", "enter_url"}
                 /\ ~MatchesNoPattern(UrlShorts)
    ]_vars

\* C4 witness: "not a url" has been rejected
C4_Witness ==
    \E s \in Sessions :
        pc[s] = "ui" /\ url[s] = UrlNotAUrl /\ shown[s] = "invalid_url"

\* C5: when download_video has reported a failure, the call has returned the
\* Failure with the message of download_video, neither the extraction nor the
\* recognition was called, nothing was put into the cache or flushed, the key
\* is not in the cache, and the temporary directory is gone.
C5_FetchFailureShortCircuit ==
    \A s \in Sessions :
        spy[s].fetch_error # "-" =>
            /\ pc[s] = "ui"
            /\ result[s] = Failure(spy[s].fetch_error)
            /\ ~DictHas(cache[s], Key(s))
            /\ spy[s].extract = 0 /\ spy[s].recognize = 0
            /\ spy[s].put = 0 /\ spy[s].flush = "-"
            /\ ~tmp[s].exists

\* C5 witness: a call has returned after download_video failed
C5_Witness ==
    \E s \in Sessions :
        pc[s] = "ui" /\ spy[s].fetch = 1 /\ spy[s].fetch_error = "Download failed: e"

\* C6: the temporary directory of a call exists only while the call is inside
\* the pipeline: it is gone when the call has returned (whatever the result)
\* and when the call was cancelled in the middle of a stage.
C6_WorkspaceRemoved ==
    \A s \in Sessions :
        /\ tmp[s].exists => pc[s] \in InPipeline
        /\ pc[s] \notin InPipeline => tmp[s] = NoDir

\* C6 witness: a call that had created its directory was cancelled in a stage
\* where the directory held files
C6_Witness ==
    \E s \in Sessions, t \in Sessions :
        /\ pc[s] = "raised" /\ spy[s].workspace = 1 /\ spy[s].extract = 1
        /\ pc[t] = "ui" /\ spy[t].workspace = 1 /\ result[t].success

\* the keys of the JSON object in the cache file
FileKeys(f) == {f.members[i][1] : i \in 1..Len(f.members)}

\* session s takes the step in which a recognized song is put and saved
Puts(s) == pc[s] = "recognize" /\ pc'[s] = "ui" /\ spy'[s].put = 1

\* session s takes the Clear Cache step
Clears(s) == pc[s] = "ui" /\ pc'[s] = "rerun" /\ spy'[s].clear = 1

\* C2: the cache never holds more than MAX_CACHE_SIZE entries, nor does the
\* file; a put appends the new key as the most recent entry and, when that
\* makes MAX_CACHE_SIZE + 1 entries, drops the oldest ones: what is left are
\* the MAX_CACHE_SIZE most recently inserted entries, in insertion order.
C2_CapacityOldestFirst ==
    [][\A s \in Sessions :
        /\ Len(cache'[s].items) <= MAX_CACHE_SIZE
        /\ Len(file'.members) <= MAX_CACHE_SIZE
        /\ Puts(s) =>
            LET all == Append(cache[s].items, [key |-> Key(s), value |-> result'[s]])
                new == cache'[s].items
                dropped == Len(all) - Len(new)
            IN  /\ Len(new) = IF Len(all) > MAX_CACHE_SIZE THEN MAX_CACHE_SIZE ELSE Len(all)
                /\ \A i \in 1..Len(new) : new[i] = all[i + dropped]
    ]_vars

\* C2 witness: MAX_CACHE_SIZE + 2 distinct keys were inserted; the cache holds
\* MAX_CACHE_SIZE entries, the two oldest are gone, the two newest are the last
C2_Witness ==
    \E s \in Sessions :
        /\ pc[s] = "ui" /\ spy[s].put = 1
        /\ Len(cache[s].items) = MAX_CACHE_SIZE
        /\ ~DictHas(cache[s], get_url_hash(OldUrl(1)))
        /\ ~DictHas(cache[s], get_url_hash(OldUrl(2)))
        /\ cache[s].items[1].key = get_url_hash(OldUrl(3))
        /\ cache[s].items[MAX_CACHE_SIZE - 1].key = get_url_hash(UrlShorts)
        /\ cache[s].items[MAX_CACHE_SIZE].key = get_url_hash(UrlMixedCase)

\* C7 (the claim): when a call puts and saves its result after another session
\* wrote the cache file while the call was in the pipeline, the file keeps
\* every entry it held (short of the size limit) next to the new one.
C7_ConcurrentWritersKeepEntries ==
    [][\A s \in Sessions :
        (Puts(s) /\ spy'[s].flush = "ok" /\ spy[s].raced)
            => /\ Key(s) \in FileKeys(file')
               /\ \/ Len(file.members) >= MAX_CACHE_SIZE
                  \/ FileKeys(file) \subseteq FileKeys(file')
    ]_vars

\* C8: after a put or a clear whose write succeeded, loading the file gives
\* exactly the cache of the recognizer, entries and order, with the result just
\* returned under its key; and a recognizer constructed while the file still is
\* what the last recognizer saved starts with exactly that cache.
C8_Durable ==
    [][\A s \in Sessions :
        /\ ((Puts(s) \/ Clears(s)) /\ spy'[s].flush = "ok")
            => /\ file'.kind = "json"
               /\ load_cache(file') = cache'[s]
               /\ Puts(s) => DictGet(load_cache(file'), Key(s)) = result'[s]
               /\ Clears(s) => load_cache(file') = EmptyDict
        /\ (pc[s] = "rerun" /\ pc'[s] = "sidebar" /\ spy[s].flush = "ok"
                /\ file = JsonDump(cache[s]))
            => cache'[s] = cache[s]
    ]_vars

\* C8 witness: a second entry was put and flushed, and the file holds both
C8_Witness ==
    \E s \in Sessions :
        /\ pc[s] = "ui" /\ spy[s].put = 1 /\ spy[s].flush = "ok"
        /\ Len(cache[s].items) = 2
        /\ load_cache(file) = cache[s]

\* C9 (the claim): a put whose write of the file fails still returns its
\* Success, with the entry in the cache; and in the same process the cache in
\* memory stays what later calls see: the next run of the script still has
\* every entry (or, after a clear, an empty cache).
C9_FlushFailureAdvisory ==
    [][\A s \in Sessions :
        /\ (Puts(s) /\ spy'[s].flush = "failed")
            => result'[s].success /\ DictHas(cache'[s], Key(s))
        /\ (pc[s] = "rerun" /\ pc'[s] = "sidebar" /\ spy[s].flush = "failed")
            => IF spy[s].clear = 1
               THEN cache'[s] = EmptyDict
               ELSE \A k \in DictKeys(cache[s]) :
                        DictHas(cache'[s], k) /\ DictGet(cache'[s], k) = DictGet(cache[s], k)
    ]_vars

\* the file is missing, or json.load rejects it, or it is no JSON object
StoreUnusable(f) == f.kind \in {"missing", "garbage"} \/ f.type # "object"

\* C10 (the claim): constructed over a missing, unreadable or malformed cache
\* file, the recognizer starts with the empty cache and the script goes on.
C10_LoadFailureEmptyCache ==
    [][\A s \in Sessions :
        /\ (pc[s] \in {"off", "rerun"} /\ pc'[s] = "sidebar" /\ StoreUnusable(file))
            => cache'[s] = EmptyDict
        /\ (pc[s] = "sidebar" /\ pc'[s] # "sidebar") => pc'[s] = "ui"
    ]_vars

-----------------------------------------------------------------------------
(* Properties of the recognition step and of the page (SpecPayload) *)

\* the answer of the recognition service holds no match record
NoMatch(p) == p.kind = "result" /\ "track" \notin DOMAIN p.result

\* the answer holds a match record
HasMatch(p) == p.kind = "result" /\ "track" \in DOMAIN p.result

\* the recognition step of the call has returned
Recognized == norm.stage \in {"returned", "displayed"}

\* C11: when the call of the recognition service raises, process_video returns
\* the Failure "Shazam recognition failed: ..."; when the service answers
\* without a match record it returns the Failure "No song recognized by
\* Shazam"; the two errors differ, and neither is put into the cache or
\* written to the file.
C11_RecognizeFailuresDistinct ==
    Recognized =>
        LET p == norm.payload
            r == result["s1"]
        IN  /\ p.kind = "raises"
                => ~r.success /\ r.error = "Shazam recognition failed: e"
                   /\ r.error # "No song recognized by Shazam"
            /\ NoMatch(p)
                => ~r.success /\ r.error = "No song recognized by Shazam"
                   /\ r.error # "Shazam recognition failed: e"
            /\ ~r.success
                => /\ spy["s1"].put = 0
                   /\ cache["s1"] = EmptyDict
                   /\ file = JsonDump(EmptyDict)

\* C11 witness: the service raised and the call has returned its Failure
C11_Witness ==
    /\ Recognized
    /\ norm.payload.kind = "raises"
    /\ result["s1"].error = "Shazam recognition failed: e"
    /\ spy["s1"].recognize = 1

\* "spotify:track:"
SpotifyTrackPrefix == <<"s", "p", "o", "t", "i", "f", "y", ":", "t", "r", "a", "c", "k", ":">>

\* C12 (the claim): a Spotify link of the form spotify:track:<id> is shown as
\* https://open.spotify.com/track/<id>; a Spotify link of any other form (an
\* https URL, spotify:album:<id>, spotify:search:<q>) is shown unchanged.
C12_SpotifyLinkNormalised ==
    (norm.stage = "displayed" /\ "spotify_uri" \in DOMAIN result["s1"].song_data)
        => LET uri == result["s1"].song_data.spotify_uri
           IN  /\ "spotify_url" \in DOMAIN norm.display
               /\ norm.display.spotify_url =
                    IF StartsWith(SpotifyTrackPrefix, uri)
                    THEN OpenSpotifyTrack
                         \o SubSeq(uri, Len(SpotifyTrackPrefix) + 1, Len(uri))
                    ELSE uri

\* C13: for every answer that holds a match record, whichever of the keys of
\* the record (and of its nested dicts) are missing, the call returns a
\* Success whose song has a title and an artist ("Unknown Title" / "Unknown
\* Artist" when missing); what is missing in the answer is absent from the
\* song and from the page.
C13_PartialPayload ==
    (Recognized /\ HasMatch(norm.payload)) =>
        LET track == norm.payload.result.track
            r == result["s1"]
            song == r.song_data
        IN  /\ r.success
            /\ song.title = (IF "title" \in DOMAIN track THEN track.title ELSE "Unknown Title")
            /\ song.artist =
                (IF "subtitle" \in DOMAIN track THEN track.subtitle ELSE "Unknown Artist")
            /\ "sections" \notin DOMAIN track
                => {"album", "release_date", "label"} \cap DOMAIN song = {}
            /\ ("hub" \notin DOMAIN track \/ "actions" \notin DOMAIN track.hub)
                => {"spotify_uri", "apple_music_uri"} \cap DOMAIN song = {}
            /\ ("share" \notin DOMAIN track \/ "href" \notin DOMAIN track.share)
                => "shazam_url" \notin DOMAIN song
            /\ norm.stage = "displayed"
                => /\ {"title", "artist"} \subseteq DOMAIN norm.display
                   /\ norm.display.title = song.title
                   /\ norm.display.artist = song.artist
                   /\ ("images" \notin DOMAIN track \/ track.images = NoKeys)
                        => "cover_url" \notin DOMAIN norm.display
                   /\ ("genres" \notin DOMAIN track \/ track.genres = NoKeys)
                        => "genre" \notin DOMAIN norm.display
                   /\ "sections" \notin DOMAIN track
                        => {"album", "release_date", "label", "additional"}
                                \cap DOMAIN norm.display = {}
                   /\ "hub" \notin DOMAIN track
                        => {"spotify_url", "apple_music_url"} \cap DOMAIN norm.display = {}
                   /\ "share" \notin DOMAIN track
                        => "shazam_url" \notin DOMAIN norm.display

\* C13 witness: a match record without title, sections and hub was recognized
\* and is on the page under "Unknown Title"
C13_Witness ==
    /\ norm.stage = "displayed"
    /\ HasMatch(norm.payload)
    /\ {"title", "sections", "hub"} \cap DOMAIN norm.payload.result.track = {}
    /\ "subtitle" \in DOMAIN norm.payload.result.track
    /\ result["s1"].success
    /\ norm.display.title = "Unknown Title"
    /\ norm.display.artist = "Michael Jackson"

\* the metadata pairs of the SONG sections, in the order the code reads them
RECURSIVE SongPairs(_)
SongPairs(sections) ==
    IF sections = <<>> THEN <<>>
    ELSE (IF "type" \in DOMAIN Head(sections) /\ Head(sections).type = "SONG"
             /\ "metadata" \in DOMAIN Head(sections)
          THEN Head(sections).metadata ELSE <<>>)
         \o SongPairs(Tail(sections))

\* the pairs whose title is t, letter for letter
Titled(pairs, t) ==
    SelectSeq(pairs, LAMBDA meta : "title" \in DOMAIN meta /\ meta.title = t)

\* the pairs whose title is t when the case of the letters is ignored
TitledAnyCase(pairs, t) ==
    SelectSeq(pairs, LAMBDA meta : "title" \in DOMAIN meta /\ Lower(meta.title) = Lower(t))

\* the 'text' of the last pair of a non-empty sequence ('' when it has none)
LastText(pairs) ==
    IF "text" \in DOMAIN pairs[Len(pairs)] THEN pairs[Len(pairs)].text ELSE ""

\* C14 (the claim as written): a pair of a SONG section whose title is
\* "album", "released" or "label" in any letter case sets the album, the
\* release date or the label of the song.
C14_KeysAnyCase ==
    (Recognized /\ HasMatch(norm.payload)) =>
        LET pairs == SongPairs(Get(norm.payload.result.track, "sections", <<>>))
            song == result["s1"].song_data
        IN  /\ TitledAnyCase(pairs, Album) # <<>> => "album" \in DOMAIN song
            /\ TitledAnyCase(pairs, Released) # <<>> => "release_date" \in DOMAIN song
            /\ TitledAnyCase(pairs, Label) # <<>> => "label" \in DOMAIN song

\* C14 (amended): a pair of a SONG section whose title is exactly "Album",
\* "Released" or "Label" sets the album, the release date or the label of the
\* song to the text of the pair, the last such pair deciding; a title in any
\* other spelling ("ALBUM", "album", "released") sets nothing.
C14_KeysExactCase ==
    (Recognized /\ HasMatch(norm.payload)) =>
        LET pairs == SongPairs(Get(norm.payload.result.track, "sections", <<>>))
            song == result["s1"].song_data
        IN  /\ IF Titled(pairs, Album) # <<>>
               THEN "album" \in DOMAIN song
                    /\ song.album = [name |-> LastText(Titled(pairs, Album))]
               ELSE "album" \notin DOMAIN song
            /\ IF Titled(pairs, Released) # <<>>
               THEN "release_date" \in DOMAIN song
                    /\ song.release_date = LastText(Titled(pairs, Released))
               ELSE "release_date" \notin DOMAIN song
            /\ IF Titled(pairs, Label) # <<>>
               THEN "label" \in DOMAIN song
                    /\ song.label = LastText(Titled(pairs, Label))
               ELSE "label" \notin DOMAIN song

\* C14 witness: a SONG section with the pairs ("ALBUM", "Thriller") and
\* ("Released", "Thriller") was read: the release date is set, the album is not
C14_Witness ==
    /\ Recognized
    /\ HasMatch(norm.payload)
    /\ "sections" \in DOMAIN norm.payload.result.track
    /\ norm.payload.result.track.sections =
        <<[type |-> "SONG",
           metadata |-> <<[title |-> <<"A", "L", "B", "U", "M">>, text |-> "Thriller"],
                          [title |-> Released, text |-> "Thriller"]>>]>>
    /\ result["s1"].success
    /\ "album" \notin DOMAIN result["s1"].song_data
    /\ result["s1"].song_data.release_date = "Thriller"

-----------------------------------------------------------------------------
(* Properties of the pipeline, the suggestions and the cache (Spec, SpecFull) *)

\* the texts extract_audio_segment returns with a failure
ExtractErrors == {"FFmpeg error: stderr", "FFmpeg not found. Please install FFmpeg.",
                  "Audio extraction failed: e"}

\* C15: in one call, download, extract and recognize are each called at most
\* once and in this order, a stage only after every earlier stage succeeded:
\* extract only after a download that succeeded and left a video file,
\* recognize only after an extraction that succeeded, the put of the result
\* only after a recognition that succeeded.  After a failed extraction or a
\* missing video file recognize is never called and nothing is put.
C15_StageOrder ==
    \A s \in Sessions :
        LET c == spy[s]
        IN  /\ c.workspace <= 1 /\ c.fetch <= 1 /\ c.extract <= 1
            /\ c.recognize <= 1 /\ c.put <= 1
            /\ c.fetch = 1 => c.lookup = 1 /\ c.workspace = 1
            /\ c.extract = 1 => c.fetch = 1 /\ c.fetch_error = "-"
            /\ c.recognize = 1 => c.extract = 1 /\ c.extract_error = "-"
            /\ c.put = 1 => c.recognize = 1 /\ result[s].success
            /\ pc[s] = "download" => c.fetch = 0
            /\ pc[s] = "extract"
                => c.fetch = 1 /\ c.fetch_error = "-" /\ c.extract = 0
                   /\ tmp[s].files # {}
            /\ pc[s] = "recognize"
                => c.extract = 1 /\ c.extract_error = "-" /\ c.recognize = 0
                   /\ "audio.mp3" \in tmp[s].files
            /\ (pc[s] = "ui" /\ ~result[s].success
                /\ result[s].error \in ExtractErrors \cup {"Downloaded video file not found"})
                => c.recognize = 0 /\ c.put = 0 /\ c.flush = "-"
                   /\ ~DictHas(cache[s], Key(s))

\* C15 witness: a call on a cache miss went through download, extract and
\* recognize once each and put its result
C15_Witness ==
    \E s \in Sessions :
        /\ pc[s] = "ui" /\ result[s].success
        /\ spy[s].workspace = 1 /\ spy[s].fetch = 1 /\ spy[s].extract = 1
        /\ spy[s].recognize = 1 /\ spy[s].put = 1
        /\ DictHas(cache[s], Key(s))

\* C16 (the claim): main() shows under each failure the suggestion of its
\* kind: the FFmpeg suggestion for every failure of the extraction (a missing
\* FFmpeg included), the "clearer audio or a more popular song" suggestion
\* when no song was recognized, the Shazam suggestion when the recognition
\* service failed; no failure is shown the suggestion of another kind.
C16_HintMatchesFailure ==
    \A s \in Sessions :
        (pc[s] = "ui" /\ shown[s] = "error") =>
            /\ result[s].error \in ExtractErrors => hint[s] = "install_ffmpeg"
            /\ result[s].error = "No song recognized by Shazam"
                => hint[s] = "clearer_audio"
            /\ result[s].error = "Shazam recognition failed: e"
                => hint[s] = "shazam_database"
            /\ hint[s] = "install_ffmpeg" => result[s].error \in ExtractErrors
            /\ hint[s] = "clearer_audio" => result[s].error = "No song recognized by Shazam"
            /\ hint[s] = "shazam_database" => result[s].error = "Shazam recognition failed: e"

\* session s takes the Identify step with a valid URL whose key is in its cache
Hits(s) ==
    /\ Identifies(s)
    /\ url[s] # <<>> /\ ~MatchesNoPattern(url[s])
    /\ DictHas(cache[s], Key(s))

\* C17: a call that finds its key in the cache leaves the cache (entries and
\* their order) and the cache file as they were and creates no temporary
\* directory.  The hit does not move the entry: when the cache is full, the
\* put of a new key drops the entry in the oldest position and moves every
\* other entry one position towards it, whether or not they were hit.
C17_LookupPureRead ==
    [][\A s \in Sessions :
        /\ Hits(s)
            => /\ cache'[s] = cache[s]
               /\ file' = file
               /\ tmp'[s] = tmp[s] /\ ~tmp'[s].exists
               /\ spy'[s].workspace = 0 /\ spy'[s].put = 0 /\ spy'[s].flush = "-"
        /\ (Puts(s) /\ Len(cache[s].items) = MAX_CACHE_SIZE /\ ~DictHas(cache[s], Key(s)))
            => /\ ~DictHas(cache'[s], cache[s].items[1].key)
               /\ \A i \in 2..MAX_CACHE_SIZE : cache'[s].items[i - 1] = cache[s].items[i]
    ]_vars

\* C17 witness: the key of UrlShorts, the oldest of MAX_CACHE_SIZE entries, was
\* hit and is still the oldest entry, the file still what the cache was loaded
\* from
C17_Witness ==
    /\ pc["s1"] = "ui" /\ url["s1"] = UrlShorts
    /\ result["s1"].success
    /\ spy["s1"].lookup = 1 /\ spy["s1"].workspace = 0
    /\ Len(cache["s1"].items) = MAX_CACHE_SIZE
    /\ cache["s1"].items[1].key = get_url_hash(UrlShorts)
    /\ file = JsonDump(HitCache)

====
